---- MODULE Spec2Model ----
(***************************************************************************)
(* Model of complete_subaccount_creation.py: the survey-completion webhook *)
(* handler (handle_survey_completion), the payload normaliser and account  *)
(* creation call (create_subaccount_from_survey_data), the source check    *)
(* (validate_cell_products_source) and the remote account-creation API.    *)
(*                                                                         *)
(* Text is a sequence of one-character strings, so that strip, replace and *)
(* split are computed character by character as Python computes them.      *)
(* A JSON value is a record [t, s]: t is "absent" (key not in the          *)
(* mapping), "null" (JSON null / None), "str" (s is the text) or "obj" (a  *)
(* JSON object; s is the text of its 'id' member, empty when it has none). *)
(* Form fields are text or null; only 'location' is an object.             *)
(***************************************************************************)
EXTENDS Naturals, Sequences, FiniteSets, TLC

VARIABLES
    body,         \* per request: what request.get_json() is given (line 290)
    pc,           \* per request: where the handler stands
    survey_data,  \* per request: the copy of the payload the handler rewrites (315-328)
    fields,       \* per request: the fields extracted at lines 86-166
    outbound,     \* per request: the bodies POSTed to {base_url}/locations/ (236)
    reply,        \* per request: what the remote API or the network answered
    accounts,     \* the requests for which the remote API has created an account
    result,       \* per request: the dict create_subaccount_from_survey_data returns
    response,     \* per request: the HTTP answer given to the webhook caller
    invoked       \* per request: create_subaccount_from_survey_data was called (373)

vars == <<body, pc, survey_data, fields, outbound, reply, accounts, result, response, invoked>>

----------------------------------------------------------------------------
(* Text primitives (Python str methods)                                    *)

Whitespace == {" ", "\t"}

RECURSIVE lstrip(_)
lstrip(s) == IF s # <<>> /\ Head(s) \in Whitespace THEN lstrip(Tail(s)) ELSE s

RECURSIVE rstrip(_)
rstrip(s) ==
    IF s # <<>> /\ s[Len(s)] \in Whitespace THEN rstrip(SubSeq(s, 1, Len(s) - 1)) ELSE s

\* str.strip(): whitespace removed at both ends
strip(s) == rstrip(lstrip(s))

startswith(s, p) == Len(s) >= Len(p) /\ SubSeq(s, 1, Len(p)) = p

\* str.replace(old, ''): every non-overlapping occurrence, left to right
RECURSIVE replace(_, _)
replace(s, old) ==
    IF s = <<>> THEN <<>>
    ELSE IF startswith(s, old) THEN replace(SubSeq(s, Len(old) + 1, Len(s)), old)
    ELSE <<Head(s)>> \o replace(Tail(s), old)

RECURSIVE find(_, _, _)
find(s, c, i) == IF i > Len(s) THEN 0 ELSE IF s[i] = c THEN i ELSE find(s, c, i + 1)

\* str.split(' ', 1): a list of one part, or of the parts around the first space
split1(s) ==
    LET i == find(s, " ", 1)
    IN  IF i = 0 THEN <<s>> ELSE <<SubSeq(s, 1, i - 1), SubSeq(s, i + 1, Len(s))>>

----------------------------------------------------------------------------
(* JSON values                                                             *)

Absent == [t |-> "absent", s |-> <<>>]
Null   == [t |-> "null", s |-> <<>>]
Str(s) == [t |-> "str", s |-> s]
Obj(id) == [t |-> "obj", s |-> id]

\* dict.get(key): None for a key that is absent
get(d, k) == IF d[k].t = "absent" THEN Null ELSE d[k]

\* key in dict
has(d, k) == d[k].t # "absent"

\* Python truthiness of a value
truthy(v) == v.t = "obj" \/ (v.t = "str" /\ v.s # <<>>)

\* str(value): text is itself, None is 'None'
str(v) == IF v.t = "str" THEN v.s ELSE <<"N", "o", "n", "e">>

----------------------------------------------------------------------------
(* Configuration                                                           *)

\* CONFIG['cell_products_location_id']
cell_products_location_id == <<"C", "P">>

\* The keys of the incoming mapping that the program reads
business_name_keys ==
    <<"business name", "business_name", "businessName", "company", "companyName",
      "Provider Name", "Legal Company Name">>

first_name_keys == <<"first_name", "firstName", "fname", "Patient First Name">>

last_name_keys == <<"last_name", "lastName", "lname", "Patient Last Name">>

email_keys == <<"email", "emailAddress", "Email", "Patient Email">>

phone_keys == <<"phone", "phoneNumber", "mobile", "Phone", "Patient Phone">>

location_keys == <<"locationId", "location_id", "location">>

Range(q) == {q[i] : i \in 1..Len(q)}

Keys ==
    Range(business_name_keys) \cup Range(first_name_keys) \cup Range(last_name_keys)
    \cup Range(email_keys) \cup Range(phone_keys) \cup Range(location_keys) \cup {"name"}

EmptyDict == [k \in Keys |-> Absent]

----------------------------------------------------------------------------
(* validate_cell_products_source and the identifier it is given            *)

\* accepts every source
validate_cell_products_source_any(source_location_id) == TRUE

validate_cell_products_source(source_location_id) ==
    source_location_id = cell_products_location_id

\* payload.get('locationId') or payload.get('location_id')
\*   or payload.get('location', {}).get('id', '')
source_location_id(payload) ==
    IF truthy(get(payload, "locationId")) THEN payload["locationId"].s
    ELSE IF truthy(get(payload, "location_id")) THEN payload["location_id"].s
    ELSE payload["location"].s

\* the test of line 310: the request is rejected
source_rejected(payload) ==
    /\ source_location_id(payload) # <<>>
    /\ ~validate_cell_products_source(source_location_id(payload))

----------------------------------------------------------------------------
(* handle_survey_completion: the two rewrites of the copied payload        *)

Dr  == <<"D", "r", ".", " ">>
Mr  == <<"M", "r", ".", " ">>
Ms  == <<"M", "s", ".", " ">>
Mrs == <<"M", "r", "s", ".", " ">>

\* leaves 'Mrs. ' in the name
remove_titles_without_mrs(s) == replace(replace(replace(s, Dr), Mr), Ms)

\* .replace('Dr. ', '').replace('Mr. ', '').replace('Ms. ', '').replace('Mrs. ', '')
remove_titles(s) == replace(replace(replace(replace(s, Dr), Mr), Ms), Mrs)

\* name_parts[0], and name_parts[1] if there is one, else ''
name_parts(s) ==
    LET parts == split1(s)
    IN  [first |-> parts[1], last |-> IF Len(parts) > 1 THEN parts[2] ELSE <<>>]

\* lines 318-319: "business name" copied to "business_name"
normalize_business_name(d) ==
    IF has(d, "business name") /\ ~has(d, "business_name")
    THEN [d EXCEPT !["business_name"] = d["business name"]]
    ELSE d

\* lines 323-327: combined "name" split into first_name / last_name
normalize_name(d) ==
    IF has(d, "name") /\ ~has(d, "first_name") /\ ~has(d, "last_name")
    THEN LET parts == name_parts(strip(remove_titles(str(d["name"]))))
         IN  [d EXCEPT !["first_name"] = Str(parts.first),
                       !["last_name"] = Str(parts.last)]
    ELSE d

normalize_survey_data(payload) == normalize_name(normalize_business_name(payload))

----------------------------------------------------------------------------
(* create_subaccount_from_survey_data: extraction                          *)

\* takes the candidate without trimming it
RECURSIVE first_candidate_untrimmed(_, _, _)
first_candidate_untrimmed(d, keys, i) ==
    IF i > Len(keys) THEN <<>>
    ELSE LET field_value == get(d, keys[i])
         IN  IF truthy(field_value) /\ strip(str(field_value)) # <<>>
             THEN str(field_value)
             ELSE first_candidate_untrimmed(d, keys, i + 1)

\* for field_name, field_value in candidates.items():
\*     if field_value and str(field_value).strip(): take it, break
RECURSIVE first_candidate(_, _, _)
first_candidate(d, keys, i) ==
    IF i > Len(keys) THEN <<>>
    ELSE LET field_value == get(d, keys[i])
         IN  IF truthy(field_value) /\ strip(str(field_value)) # <<>>
             THEN strip(str(field_value))
             ELSE first_candidate(d, keys, i + 1)

\* (d.get(k1) or d.get(k2) or ... or ''): the first truthy value, else ''
RECURSIVE or_chain(_, _, _)
or_chain(d, keys, i) ==
    IF i > Len(keys) THEN <<>>
    ELSE IF truthy(get(d, keys[i])) THEN d[keys[i]].s
    ELSE or_chain(d, keys, i + 1)

extract_business_name(d) == first_candidate(d, business_name_keys, 1)

\* lines 157-160
extract_email(d) == strip(or_chain(d, email_keys, 1))

\* lines 162-166
extract_phone(d) == strip(or_chain(d, phone_keys, 1))

\* lines 148-149: the combined name is read, and None.strip() raises
name_raises(d) ==
    /\ first_candidate(d, first_name_keys, 1) = <<>>
    /\ first_candidate(d, last_name_keys, 1) = <<>>
    /\ d["name"].t = "null"

\* lines 113-155: the explicit fields, else the parsed combined name
extract_names(d) ==
    LET first_name == first_candidate(d, first_name_keys, 1)
        last_name  == first_candidate(d, last_name_keys, 1)
        full_name  == strip(d["name"].s)
    IN  IF first_name = <<>> /\ last_name = <<>> /\ full_name # <<>>
        THEN name_parts(strip(remove_titles(full_name)))
        ELSE [first |-> first_name, last |-> last_name]

NoFields ==
    [raised |-> FALSE, business_name |-> <<>>, first_name |-> <<>>, last_name |-> <<>>,
     email |-> <<>>, phone |-> <<>>]

\* lines 86-166
extract_fields(d) ==
    IF name_raises(d)
    THEN [NoFields EXCEPT !.raised = TRUE,
                          !.business_name = extract_business_name(d)]
    ELSE [raised |-> FALSE,
          business_name |-> extract_business_name(d),
          first_name |-> extract_names(d).first,
          last_name |-> extract_names(d).last,
          email |-> extract_email(d),
          phone |-> extract_phone(d)]

\* checks the business name only
validation_errors_business_only(f) ==
    IF f.business_name = <<>> THEN {"business name"} ELSE {}

\* lines 169-177: the fields reported missing
validation_errors(f) ==
    (IF f.business_name = <<>> THEN {"business name"} ELSE {})
    \cup (IF f.email = <<>> THEN {"email"} ELSE {})

Contact == <<"C", "o", "n", "t", "a", "c", "t">>
Person  == <<"P", "e", "r", "s", "o", "n">>

\* no fallback for a missing first name
fallback_first_name_none(first_name) == first_name

\* lines 184-189
fallback_first_name(first_name) == IF first_name = <<>> THEN Contact ELSE first_name

fallback_last_name(last_name) == IF last_name = <<>> THEN Person ELSE last_name

\* line 194
clean_phone(phone) ==
    replace(replace(replace(replace(replace(phone, <<"+", "1">>), <<"-">>), <<"(">>),
                    <<")">>), <<" ">>)

\* line 205
outbound_phone(phone) ==
    IF clean_phone(phone) # <<>> THEN <<"+", "1">> \o clean_phone(phone) ELSE <<>>

\* lines 197-219: the members of the request body that depend on the payload
subaccount_data(f) ==
    [name      |-> f.business_name,
     phone     |-> outbound_phone(f.phone),
     firstName |-> fallback_first_name(f.first_name),
     lastName  |-> fallback_last_name(f.last_name),
     email     |-> f.email]

----------------------------------------------------------------------------
(* Results, responses and the remote API                                   *)

NA == <<"N", "/", "A">>

NoError == [kind |-> "none", status |-> 0, text |-> <<>>]

\* the dict returned by create_subaccount_from_survey_data
NoResult == [set |-> FALSE, success |-> FALSE, sub_account_id |-> <<>>, error |-> NoError]

\* lines 250-257
success_result(id) ==
    [set |-> TRUE, success |-> TRUE, sub_account_id |-> id, error |-> NoError]

\* lines 261-264 and 270-273: 'error' carries the message built at 259 or 267
failure_result(kind, status, text) ==
    [set |-> TRUE, success |-> FALSE, sub_account_id |-> <<>>,
     error |-> [kind |-> kind, status |-> status, text |-> text]]

\* the HTTP answer given to the webhook caller: status 0 is no answer yet
NoResponse == [status |-> 0, success |-> FALSE, sub_account_id |-> <<>>, error |-> NoError]

http_response(status, success, id, error) ==
    [status |-> status, success |-> success, sub_account_id |-> id, error |-> error]

\* What the remote API and the network can do with one POST /locations/:
\* answer with a status and a body (a 2xx answer means the account exists and the
\* body is a JSON object, with or without 'id'), or fail at the network level,
\* before or after the remote has created the account.
AccountId == <<"a", "b", "c", "1", "2", "3">>

ErrorBody == <<"b", "a", "d">>

\* no answer yet
NoReply ==
    [kind |-> "none", status |-> 0, created |-> FALSE, has_id |-> FALSE, id |-> <<>>,
     text |-> <<>>]

RemoteOutcomes ==
    [kind : {"http"}, status : {200, 201}, created : {TRUE}, has_id : {TRUE},
     id : {AccountId}, text : {<<>>}]
    \cup [kind : {"http"}, status : {200}, created : {TRUE}, has_id : {FALSE},
          id : {<<>>}, text : {<<>>}]
    \cup [kind : {"http"}, status : {400, 422, 500}, created : {FALSE}, has_id : {FALSE},
          id : {<<>>}, text : {ErrorBody}]
    \cup [kind : {"network"}, status : {0}, created : BOOLEAN, has_id : {FALSE},
          id : {<<>>}, text : {<<>>}]

\* takes 200 alone for success
classify_200_only(o) ==
    IF o.kind = "network" THEN failure_result("exception", 0, <<>>)
    ELSE IF o.status = 200
         THEN success_result(IF o.has_id THEN o.id ELSE NA)
         ELSE failure_result("upstream", o.status, o.text)

\* lines 236-273: the result made of the remote's answer
classify(o) ==
    IF o.kind = "network" THEN failure_result("exception", 0, <<>>)
    ELSE IF o.status \in {200, 201}
         THEN success_result(IF o.has_id THEN o.id ELSE NA)
         ELSE failure_result("upstream", o.status, o.text)

----------------------------------------------------------------------------
(* The state machine: one webhook request per element of DOMAIN pc         *)

Requests == DOMAIN pc

\* lines 290-293: request.get_json() and the test of the payload
GetPayload(r) ==
    /\ pc[r] = "received"
    /\ body[r].kind \in {"falsy", "object"}
    /\ IF body[r].kind = "falsy"
       THEN /\ response' = [response EXCEPT ![r] =
                               http_response(400, FALSE, <<>>,
                                             [kind |-> "no_payload", status |-> 0, text |-> <<>>])]
            /\ pc' = [pc EXCEPT ![r] = "done"]
       ELSE /\ pc' = [pc EXCEPT ![r] = "source"]
            /\ UNCHANGED response
    /\ UNCHANGED <<body, survey_data, fields, outbound, reply, accounts, result, invoked>>

\* line 290 with a request that carries no JSON: get_json() gives None (answered 400
\* at 293) or raises, depending on the framework's version; what it raises is caught
\* at 401
GetPayloadNoJson(r) ==
    /\ pc[r] = "received"
    /\ body[r].kind = "none"
    /\ \E status \in {400, 500} :
          response' = [response EXCEPT ![r] =
                          http_response(status, FALSE, <<>>,
                                        [kind |-> IF status = 400 THEN "no_payload" ELSE "handler",
                                         status |-> 0, text |-> <<>>])]
    /\ pc' = [pc EXCEPT ![r] = "done"]
    /\ UNCHANGED <<body, survey_data, fields, outbound, reply, accounts, result, invoked>>

\* lines 401-410: an exception raised in the handler itself: get_json() on a body
\* that is not JSON (290), or payload.get on a JSON value that is no object (302)
HandlerException(r) ==
    /\ pc[r] = "received"
    /\ body[r].kind \in {"malformed", "nonobject"}
    /\ response' = [response EXCEPT ![r] =
                       http_response(500, FALSE, <<>>,
                                     [kind |-> "handler", status |-> 0, text |-> <<>>])]
    /\ pc' = [pc EXCEPT ![r] = "done"]
    /\ UNCHANGED <<body, survey_data, fields, outbound, reply, accounts, result, invoked>>

\* lines 306-311
CheckSource(r) ==
    /\ pc[r] = "source"
    /\ IF source_rejected(body[r].payload)
       THEN /\ response' = [response EXCEPT ![r] =
                               http_response(403, FALSE, <<>>,
                                             [kind |-> "source", status |-> 0, text |-> <<>>])]
            /\ pc' = [pc EXCEPT ![r] = "done"]
       ELSE /\ pc' = [pc EXCEPT ![r] = "normalize"]
            /\ UNCHANGED response
    /\ UNCHANGED <<body, survey_data, fields, outbound, reply, accounts, result, invoked>>

\* lines 315-328 (332-370 only log)
NormalizeSurveyData(r) ==
    /\ pc[r] = "normalize"
    /\ survey_data' = [survey_data EXCEPT ![r] = normalize_survey_data(body[r].payload)]
    /\ pc' = [pc EXCEPT ![r] = "create"]
    /\ UNCHANGED <<body, fields, outbound, reply, accounts, result, response, invoked>>

\* line 373 and lines 86-166: create_subaccount_from_survey_data is entered and
\* extracts the fields; an exception goes to 266-273
ExtractFields(r) ==
    /\ pc[r] = "create"
    /\ invoked' = [invoked EXCEPT ![r] = TRUE]
    /\ fields' = [fields EXCEPT ![r] = extract_fields(survey_data[r])]
    /\ IF extract_fields(survey_data[r]).raised
       THEN /\ result' = [result EXCEPT ![r] = failure_result("exception", 0, <<>>)]
            /\ pc' = [pc EXCEPT ![r] = "respond"]
       ELSE /\ pc' = [pc EXCEPT ![r] = "validate"]
            /\ UNCHANGED result
    /\ UNCHANGED <<body, survey_data, outbound, reply, accounts, response>>

\* lines 168-181: ValueError, caught at 266-273
ValidateFields(r) ==
    /\ pc[r] = "validate"
    /\ IF validation_errors(fields[r]) # {}
       THEN /\ result' = [result EXCEPT ![r] = failure_result("validation", 0, <<>>)]
            /\ pc' = [pc EXCEPT ![r] = "respond"]
       ELSE /\ pc' = [pc EXCEPT ![r] = "post"]
            /\ UNCHANGED result
    /\ UNCHANGED <<body, survey_data, fields, outbound, reply, accounts, response, invoked>>

\* lines 183-236: the request body is built and requests.post is called
PostLocation(r) ==
    /\ pc[r] = "post"
    /\ outbound' = [outbound EXCEPT ![r] = Append(@, subaccount_data(fields[r]))]
    /\ pc' = [pc EXCEPT ![r] = "awaiting"]
    /\ UNCHANGED <<body, survey_data, fields, reply, accounts, result, response, invoked>>

\* the remote API acts on the POST, and lines 238-273 make the result of its answer
ReceiveReply(r) ==
    /\ pc[r] = "awaiting"
    /\ \E o \in RemoteOutcomes :
          /\ reply' = [reply EXCEPT ![r] = o]
          /\ accounts' = IF o.created THEN accounts \cup {r} ELSE accounts
          /\ result' = [result EXCEPT ![r] = classify(o)]
    /\ pc' = [pc EXCEPT ![r] = "respond"]
    /\ UNCHANGED <<body, survey_data, fields, outbound, response, invoked>>

\* calls the remote again after a failed call instead of answering
Respond_retrying(r) ==
    /\ pc[r] = "respond"
    /\ IF ~result[r].success /\ Len(outbound[r]) = 1
       THEN /\ pc' = [pc EXCEPT ![r] = "post"]
            /\ UNCHANGED response
       ELSE /\ response' = [response EXCEPT ![r] =
                               IF result[r].success
                               THEN http_response(200, TRUE, result[r].sub_account_id, NoError)
                               ELSE http_response(500, FALSE, <<>>, result[r].error)]
            /\ pc' = [pc EXCEPT ![r] = "done"]
    /\ UNCHANGED <<body, survey_data, fields, outbound, reply, accounts, result, invoked>>

\* lines 375-399
Respond(r) ==
    /\ pc[r] = "respond"
    /\ response' = [response EXCEPT ![r] =
                       IF result[r].success
                       THEN http_response(200, TRUE, result[r].sub_account_id, NoError)
                       ELSE http_response(500, FALSE, <<>>, result[r].error)]
    /\ pc' = [pc EXCEPT ![r] = "done"]
    /\ UNCHANGED <<body, survey_data, fields, outbound, reply, accounts, result, invoked>>

----------------------------------------------------------------------------
(* The webhook bodies a caller may send                                    *)

\* how many candidate keys of a family one payload sets at once
MaxKeys == 2

Acme == <<"A", "c", "m", "e">>
Bolt == <<"B", "o", "l", "t">>
Mail == <<"a", "@", "b", ".", "c", "o">>

BusinessValues == {Null, Str(<<>>), Str(<<" ">>), Str(Acme), Str(<<" ">> \o Bolt \o <<"\t">>)}

PersonValues == {Null, Str(<<" ">>), Str(<<"B", "o", "b">>), Str(<<" ", "A", "n", "n", " ">>)}

NameValues ==
    {Absent, Null, Str(<<>>), Str(<<"M", "a", "d", "o", "n", "n", "a">>),
     Str(<<"D", "r", ".", " ", "J", "a", "n", "e", " ", "S", "m", "i", "t", "h">>), Str(<<" ", "M", "r", "s", ".", " ", "A", "l", " ", "B", " ", "C">>),
     Str(<<"A", "n", "n", " ", "D", "r", ".", " ", "L", "e", "e">>), Str(<<"M", "s", ".", " ">>)}

EmailValues == {Null, Str(<<>>), Str(<<" ">>), Str(Mail), Str(<<" ", "c", "@", "d", ".", "i", "o", " ">>)}

PhoneValues ==
    {Null, Str(<<" ">>), Str(<<"+", "1", " ", "(", "5", "5", "5", ")", " ", "1", "2", "3", "-", "4", "5", "6", "7">>), Str(<<"5", "5", "5", "-", "0", "1", "0", "0">>),
     Str(<<"+", "1">>), Str(<<"5", "5", "5", ".", "1", "2", "3", ".", "4", "5", "6", "7">>), Str(<<"+", "4", "4", " ", "2", "0", " ", "+", "1", "2", "3", "4">>)}

OtherLocation == <<"X", "X">>

LocationIdValues == {Absent, Null, Str(<<>>), Str(cell_products_location_id), Str(OtherLocation)}

LocationValues == {Absent, Obj(<<>>), Obj(cell_products_location_id), Obj(OtherLocation)}

GoodEmail == [EmptyDict EXCEPT !["email"] = Str(Mail)]

Good == [GoodEmail EXCEPT !["business_name"] = Str(Acme)]

\* the sets of at most MaxKeys keys of a candidate list
KeySets(keys) == {T \in SUBSET Range(keys) : Cardinality(T) <= MaxKeys}

\* base with the keys of T set as g says
Variant(base, T, g) == [k \in Keys |-> IF k \in T THEN g[k] ELSE base[k]]

\* "none": no JSON in the request; "malformed": a body that is not JSON; "falsy":
\* JSON null, {}, [], 0 or ""; "nonobject": any other JSON value that is no object;
\* "object": a JSON object with members (the payload holds those the program reads)
Sends(kind, payload) == body = [r \in {1} |-> [kind |-> kind, payload |-> payload]]

\* a payload that sets some candidate keys of one list
SendsVariant(base, keys, values) ==
    \E T \in KeySets(keys) : \E g \in [T -> values] : Sends("object", Variant(base, T, g))

\* one request received, nothing processed yet; its body is no JSON object, or a
\* payload that varies the business-name keys, the name keys, the email keys, the
\* phone keys or the location keys
Init ==
    /\ \/ \E kind \in {"none", "malformed", "falsy", "nonobject"} : Sends(kind, EmptyDict)
       \/ SendsVariant(GoodEmail, business_name_keys, BusinessValues)
       \/ \E n \in NameValues :
             SendsVariant([Good EXCEPT !["name"] = n], first_name_keys \o last_name_keys,
                          PersonValues)
       \/ SendsVariant([EmptyDict EXCEPT !["business_name"] = Str(Acme)], email_keys,
                       EmailValues)
       \/ SendsVariant(Good, phone_keys, PhoneValues)
       \/ \E base \in {Good, EmptyDict}, a, b \in LocationIdValues, c \in LocationValues :
             Sends("object", [base EXCEPT !["locationId"] = a, !["location_id"] = b,
                                          !["location"] = c])
    /\ pc = [r \in {1} |-> "received"]
    /\ survey_data = [r \in {1} |-> EmptyDict]
    /\ fields = [r \in {1} |-> NoFields]
    /\ outbound = [r \in {1} |-> <<>>]
    /\ reply = [r \in {1} |-> NoReply]
    /\ accounts = {}
    /\ result = [r \in {1} |-> NoResult]
    /\ response = [r \in {1} |-> NoResponse]
    /\ invoked = [r \in {1} |-> FALSE]

Next ==
    \/ \E r \in Requests : GetPayload(r)
    \/ \E r \in Requests : GetPayloadNoJson(r)
    \/ \E r \in Requests : HandlerException(r)
    \/ \E r \in Requests : CheckSource(r)
    \/ \E r \in Requests : NormalizeSurveyData(r)
    \/ \E r \in Requests : ExtractFields(r)
    \/ \E r \in Requests : ValidateFields(r)
    \/ \E r \in Requests : PostLocation(r)
    \/ \E r \in Requests : ReceiveReply(r)
    \/ \E r \in Requests : Respond(r)

Spec == Init /\ [][Next]_vars

\* how many webhook requests the server handles at once
NumReq == 2

\* the bodies of the requests handled at once: no JSON, a body that is not JSON, a
\* complete payload and a payload without an email
ConcurrentBodies ==
    {[kind |-> "none", payload |-> EmptyDict],
     [kind |-> "malformed", payload |-> EmptyDict],
     [kind |-> "object", payload |-> Good],
     [kind |-> "object", payload |-> [EmptyDict EXCEPT !["business_name"] = Str(Acme)]]}

\* NumReq requests received, none processed yet: the server runs one call of the
\* handler per request, and the calls share no variable of the program
InitConcurrent ==
    /\ body \in [1..NumReq -> ConcurrentBodies]
    /\ pc = [r \in 1..NumReq |-> "received"]
    /\ survey_data = [r \in 1..NumReq |-> EmptyDict]
    /\ fields = [r \in 1..NumReq |-> NoFields]
    /\ outbound = [r \in 1..NumReq |-> <<>>]
    /\ reply = [r \in 1..NumReq |-> NoReply]
    /\ accounts = {}
    /\ result = [r \in 1..NumReq |-> NoResult]
    /\ response = [r \in 1..NumReq |-> NoResponse]
    /\ invoked = [r \in 1..NumReq |-> FALSE]

\* the handlers interleave step by step; once requests.post has returned or raised,
\* the handler's thread runs on to its return statement (lines 238-273, 375-399 hold
\* no loop and no blocking call), hence the weak fairness of Respond
SpecConcurrent ==
    /\ InitConcurrent
    /\ [][Next]_vars
    /\ \A r \in 1..NumReq : WF_vars(Respond(r))

----------------------------------------------------------------------------
(* The claims. They are stated on the payload the caller sent, with their  *)
(* own reading of "first non-empty candidate": a candidate is non-empty    *)
(* when it is a text that is not empty once trimmed (an absent key, null   *)
(* and the empty text are empty).                                          *)

NonEmptyTrimmed(v) == v.t = "str" /\ strip(v.s) # <<>>

NonEmptyAt(p, keys) == {i \in 1..Len(keys) : NonEmptyTrimmed(p[keys[i]])}

FirstNonEmpty(p, keys) ==
    LET I == NonEmptyAt(p, keys)
    IN  IF I = {} THEN <<>>
        ELSE strip(p[keys[CHOOSE i \in I : \A j \in I : i <= j]].s)

\* C1: for every payload the extracted business name is the trimmed value of the
\* first key, in the order of business_name_keys, whose trimmed value is not empty,
\* whatever the later keys hold; it is empty only when no candidate is non-empty.
C1_BusinessNameFirstNonEmpty ==
    \A r \in Requests :
        invoked[r] =>
            fields[r].business_name = FirstNonEmpty(body[r].payload, business_name_keys)

\* two non-empty candidates that disagree, the earlier one padded: the earlier one,
\* trimmed, is the business name
C1_Witness ==
    \E r \in Requests :
        /\ invoked[r]
        /\ \E i, j \in NonEmptyAt(body[r].payload, business_name_keys) :
              /\ i < j
              /\ strip(body[r].payload[business_name_keys[i]].s)
                    # strip(body[r].payload[business_name_keys[j]].s)
              /\ body[r].payload[business_name_keys[i]].s # fields[r].business_name
              /\ fields[r].business_name = strip(body[r].payload[business_name_keys[i]].s)

\* the request is past the validation of lines 168-181
Validated(r) == invoked[r] /\ ~fields[r].raised /\ pc[r] # "validate"

ValidationFailure(r) == result[r].set /\ result[r].error.kind = "validation"

\* C2: a validation failure is reported exactly when the extracted business name or
\* the extracted email is empty, and then no POST to the account-creation API is
\* issued for the request (and no account exists for it).
C2_ValidationFailureIffMissing ==
    \A r \in Requests :
        /\ Validated(r) =>
              (ValidationFailure(r)
                 <=> (fields[r].business_name = <<>> \/ fields[r].email = <<>>))
        /\ ValidationFailure(r) => (Validated(r) /\ outbound[r] = <<>> /\ r \notin accounts)

\* a request with a business name and no email has been answered: validation failed
\* and nothing was posted
C2_Witness ==
    \E r \in Requests :
        /\ pc[r] = "done"
        /\ ValidationFailure(r)
        /\ fields[r].business_name # <<>>
        /\ fields[r].email = <<>>
        /\ outbound[r] = <<>>

\* the identifier the payload carries: the first non-empty text among locationId,
\* location_id and location.id, <<>> when there is none
CarriedIdentifier(p) ==
    LET ids == <<p["locationId"], p["location_id"], p["location"]>>
        I == {i \in 1..3 : ids[i].s # <<>>}
    IN  IF I = {} THEN <<>> ELSE ids[CHOOSE i \in I : \A j \in I : i <= j].s

C5_InputErrorsAnswered4xx ==
    \A r \in Requests :
        pc[r] = "done" =>
            /\ body[r].kind # "object" => response[r].status = 400
            /\ (body[r].kind = "object" /\ response[r].status # 403) =>
                  /\ NonEmptyAt(body[r].payload, business_name_keys) = {}
                        => response[r].status = 400
                  /\ NonEmptyAt(body[r].payload, email_keys) = {}
                        => response[r].status \in 400..499

ExplicitName(p) ==
    NonEmptyAt(p, first_name_keys) # {} \/ NonEmptyAt(p, last_name_keys) # {}

\* C6: whenever an explicit first-name or last-name candidate is non-empty, the
\* outbound firstName and lastName come from the explicit candidates, first non-empty
\* first (a side with no explicit candidate gets its default), and the combined
\* 'name' contributes nothing.
C6_ExplicitNamesWin ==
    \A r \in Requests :
        (outbound[r] # <<>> /\ ExplicitName(body[r].payload)) =>
            /\ outbound[r][1].firstName =
                  (IF NonEmptyAt(body[r].payload, first_name_keys) = {} THEN Contact
                   ELSE FirstNonEmpty(body[r].payload, first_name_keys))
            /\ outbound[r][1].lastName =
                  (IF NonEmptyAt(body[r].payload, last_name_keys) = {} THEN Person
                   ELSE FirstNonEmpty(body[r].payload, last_name_keys))

\* the payload's only name information is a combined 'name' that is not blank
OnlyCombinedName(p) ==
    /\ ~ExplicitName(p)
    /\ NonEmptyTrimmed(p["name"])

BeforeSpace(s) == IF find(s, " ", 1) = 0 THEN s ELSE SubSeq(s, 1, find(s, " ", 1) - 1)

AfterSpace(s) == IF find(s, " ", 1) = 0 THEN <<>> ELSE SubSeq(s, find(s, " ", 1) + 1, Len(s))

Honorifics == {Dr, Mr, Ms, Mrs}

\* the name without its leading honorific, trimmed
WithoutLeadingHonorific(n) ==
    LET s == strip(n)
    IN  IF \E h \in Honorifics : startswith(s, h)
        THEN LET h == CHOOSE h \in Honorifics : startswith(s, h)
             IN  strip(SubSeq(s, Len(h) + 1, Len(s)))
        ELSE s

WithoutHonorifics(n) == strip(replace(replace(replace(replace(n, Dr), Mr), Ms), Mrs))

EndsInWhitespace(n) == n # <<>> /\ n[Len(n)] \in Whitespace

NoNameInformation(p) == ~ExplicitName(p) /\ ~has(p, "name")

\* C8: with a non-empty extracted business name and email, and no first-name
\* candidate, no last-name candidate and no 'name' field, the request is not failed:
\* the call is issued with firstName 'Contact' and lastName 'Person'.
C8_DefaultNamesAndCallIssued ==
    \A r \in Requests :
        (/\ Validated(r)
         /\ fields[r].business_name # <<>>
         /\ fields[r].email # <<>>
         /\ NoNameInformation(body[r].payload)) =>
            /\ ~ValidationFailure(r)
            /\ pc[r] # "post" =>
                  /\ Len(outbound[r]) = 1
                  /\ outbound[r][1].firstName = Contact
                  /\ outbound[r][1].lastName = Person

\* a payload with no name information at all has been answered 200 after a call that
\* carried the defaults
C8_Witness ==
    \E r \in Requests :
        /\ pc[r] = "done"
        /\ response[r].status = 200
        /\ NoNameInformation(body[r].payload)
        /\ outbound[r][1].firstName = Contact
        /\ outbound[r][1].lastName = Person

Digits == {"0", "1", "2", "3", "4", "5", "6", "7", "8", "9"}

WithoutLeadingPlusOne(s) ==
    IF startswith(s, <<"+", "1">>) THEN SubSeq(s, 3, Len(s)) ELSE s

IsPunctuation(c) == c \in {"-", "(", ")", " "}

IsKept(c) == ~IsPunctuation(c)

Remainder(phone) == SelectSeq(WithoutLeadingPlusOne(phone), IsKept)

\* C9: the outbound phone is the extracted phone without a leading '+1' and without
\* hyphens, parentheses and spaces: empty if nothing remains, else '+1' and the
\* remainder, which is digits only.
C9_PhoneCleanedToDigits ==
    \A r \in Requests :
        outbound[r] # <<>> =>
            /\ outbound[r][1].phone =
                  (IF Remainder(fields[r].phone) = <<>> THEN <<>>
                   ELSE <<"+", "1">> \o Remainder(fields[r].phone))
            /\ \A i \in 1..Len(Remainder(fields[r].phone)) :
                  Remainder(fields[r].phone)[i] \in Digits

\* C10: email and phone are the trimmed value of the first candidate key whose
\* trimmed value is not empty; an earlier candidate that is empty or whitespace only
\* does not hide a later one.
C10_EmailPhoneFirstNonEmpty ==
    \A r \in Requests :
        (invoked[r] /\ ~fields[r].raised) =>
            /\ fields[r].email = FirstNonEmpty(body[r].payload, email_keys)
            /\ fields[r].phone = FirstNonEmpty(body[r].payload, phone_keys)

\* C11: there is no partial failure: a finished request was answered with a success
\* response exactly when the remote created a sub-account for it; in particular no
\* request whose outbound call created an account is answered with an error.
C11_NoPartialFailure ==
    \A r \in Requests :
        pc[r] = "done" => (response[r].success <=> r \in accounts)

\* the outbound call of request r was made and failed: the remote answered with a
\* status other than 200 and 201, or requests.post raised
FailedCall(r) == reply[r].kind # "none" /\ ~result[r].success

\* C12: no retries, also with several requests handled at once: a request never has
\* more than one outbound call; once its call has returned or raised, no further
\* outbound call is made for it; an answer given to a caller is never followed by
\* another one; and a failed outbound call leads to the failure answer (500, no
\* success) to that request's caller.
C12_NoRetries ==
    /\ [](\A r \in 1..NumReq : Len(outbound[r]) <= 1)
    /\ [][\A r \in 1..NumReq : reply[r].kind # "none" => outbound'[r] = outbound[r]]_vars
    /\ [][\A r \in 1..NumReq : response[r].status # 0 => response'[r] = response[r]]_vars
    /\ [](\A r \in 1..NumReq :
             (FailedCall(r) /\ pc[r] = "done") =>
                 (response[r].status = 500 /\ ~response[r].success))
    /\ \A r \in 1..NumReq :
          FailedCall(r) ~> (pc[r] = "done" /\ response[r].status = 500 /\ ~response[r].success)

\* one request was answered 500 after its only outbound call failed, while the
\* outbound call of another request is still in flight
C12_Witness ==
    \E r, q \in Requests :
        /\ r # q
        /\ FailedCall(r)
        /\ pc[r] = "done"
        /\ response[r].status = 500
        /\ Len(outbound[r]) = 1
        /\ pc[q] = "awaiting"
        /\ Len(outbound[q]) = 1

====
